---- MODULE Spec2Model ----
(***************************************************************************)
(* A model of xpost.py: a Streamlit page that posts on X, optionally       *)
(* quoting another post, behind a shared password.                         *)
(*                                                                         *)
(* A Python str is modelled as a sequence of characters, each character a  *)
(* TLA+ string.  An ASCII character is written as itself; a non-ASCII      *)
(* character is written by its code point ("U+00B2").                      *)
(***************************************************************************)
EXTENDS Integers, Sequences, FiniteSets, TLC

(***************************************************************************)
(* Characters and the str predicates the program uses.                     *)
(***************************************************************************)

\* The ASCII digits 0-9.
AsciiDigit == {"0", "1", "2", "3", "4", "5", "6", "7", "8", "9"}

\* U+0663 ARABIC-INDIC DIGIT THREE: category Nd, matched by \d, isdigit() True.
ArabicThree == "U+0663"

\* U+00B2 SUPERSCRIPT TWO: category No, not matched by \d, isdigit() True.
SuperTwo == "U+00B2"

\* U+00E9 LATIN SMALL LETTER E WITH ACUTE.
EAcute == "U+00E9"

NonAscii == {ArabicThree, SuperTwo, EAcute}

\* The characters the regex class \d matches in a str pattern (Unicode Nd).
RegexDigit == AsciiDigit \cup {ArabicThree}

\* The characters c for which c.isdigit() is True.
IsDigitChar == AsciiDigit \cup {ArabicThree, SuperTwo}

\* F applied to the value of v, v evaluated once (LET x == v IN F(x)).
With(v, F(_)) == CHOOSE y \in {F(x) : x \in {v}} : TRUE

\* str.isdigit(): non-empty and every character a digit character.
isdigit(s) == Len(s) > 0 /\ \A k \in 1..Len(s) : s[k] \in IsDigitChar

\* str.startswith(prefix)
startswith(s, prefix) ==
    /\ Len(prefix) <= Len(s)
    /\ \A k \in 1..Len(prefix) : s[k] = prefix[k]

\* Whether the literal lit occurs in s at position i (1-based).
HasAt(s, i, lit) ==
    /\ i + Len(lit) - 1 <= Len(s)
    /\ \A k \in 1..Len(lit) : s[i + k - 1] = lit[k]

(***************************************************************************)
(* String literals of the program and of the inputs.                       *)
(***************************************************************************)
HTTP == <<"h", "t", "t", "p">>
COLON_SLASHES == <<":", "/", "/">>
WWW_DOT == <<"w", "w", "w", ".">>
X_COM == <<"x", ".", "c", "o", "m">>
TWITTER_COM == <<"t", "w", "i", "t", "t", "e", "r", ".", "c", "o", "m">>
SLASH == <<"/">>
STATUS == <<"/", "s", "t", "a", "t", "u", "s", "/">>

(***************************************************************************)
(* The regex of extract_tweet_id_from_url,                                 *)
(*   https?://(?:www\.)?(?:x\.com|twitter\.com)/[^/]+/status/(\d+)         *)
(* as the sequence of its items, and re.match as a backtracking matcher.   *)
(***************************************************************************)
\* The pattern without its optional (?:www\.)? item.
pattern_without_www ==
    << [op |-> "lit", lit |-> HTTP],
       [op |-> "opt", lit |-> <<"s">>],
       [op |-> "lit", lit |-> COLON_SLASHES],
       [op |-> "alt", alts |-> <<X_COM, TWITTER_COM>>],
       [op |-> "lit", lit |-> SLASH],
       [op |-> "plus", class |-> "not_slash", group |-> FALSE],
       [op |-> "lit", lit |-> STATUS],
       [op |-> "plus", class |-> "digit", group |-> TRUE] >>

pattern ==
    << [op |-> "lit", lit |-> HTTP],
       [op |-> "opt", lit |-> <<"s">>],
       [op |-> "lit", lit |-> COLON_SLASHES],
       [op |-> "opt", lit |-> WWW_DOT],
       [op |-> "alt", alts |-> <<X_COM, TWITTER_COM>>],
       [op |-> "lit", lit |-> SLASH],
       [op |-> "plus", class |-> "not_slash", group |-> FALSE],
       [op |-> "lit", lit |-> STATUS],
       [op |-> "plus", class |-> "digit", group |-> TRUE] >>

InClass(c, class) ==
    CASE class = "not_slash" -> c # "/"
      [] class = "digit" -> c \in RegexDigit

\* The length of the longest run of characters of the class in s from i on.
RECURSIVE RunLength(_, _, _)
RunLength(s, i, class) ==
    IF i <= Len(s) /\ InClass(s[i], class)
    THEN 1 + RunLength(s, i + 1, class)
    ELSE 0

NoMatch == [ok |-> FALSE, group1 |-> <<>>]

\* Items k.. of the pattern p matched against s from position i on, the
\* alternatives tried in the regex engine's order (greedy first); g is the
\* text captured so far.
RECURSIVE MatchFrom(_, _, _, _, _)
RECURSIVE MatchAlt(_, _, _, _, _, _)
RECURSIVE MatchPlus(_, _, _, _, _, _)

MatchAlt(p, s, i, k, g, a) ==
    IF a > Len(p[k].alts) THEN NoMatch
    ELSE LET r == IF HasAt(s, i, p[k].alts[a])
                  THEN MatchFrom(p, s, i + Len(p[k].alts[a]), k + 1, g)
                  ELSE NoMatch
         IN  IF r.ok THEN r ELSE MatchAlt(p, s, i, k, g, a + 1)

\* n characters taken by the repetition, then fewer on failure, at least one.
MatchPlus(p, s, i, k, g, n) ==
    IF n < 1 THEN NoMatch
    ELSE LET took == SubSeq(s, i, i + n - 1)
             r == MatchFrom(p, s, i + n, k + 1, IF p[k].group THEN took ELSE g)
         IN  IF r.ok THEN r ELSE MatchPlus(p, s, i, k, g, n - 1)

MatchFrom(p, s, i, k, g) ==
    IF k > Len(p) THEN [ok |-> TRUE, group1 |-> g]
    ELSE CASE p[k].op = "lit" ->
                IF HasAt(s, i, p[k].lit)
                THEN MatchFrom(p, s, i + Len(p[k].lit), k + 1, g)
                ELSE NoMatch
           [] p[k].op = "opt" ->
                LET r == IF HasAt(s, i, p[k].lit)
                         THEN MatchFrom(p, s, i + Len(p[k].lit), k + 1, g)
                         ELSE NoMatch
                IN  IF r.ok THEN r ELSE MatchFrom(p, s, i, k + 1, g)
           [] p[k].op = "alt" -> MatchAlt(p, s, i, k, g, 1)
           [] p[k].op = "plus" ->
                MatchPlus(p, s, i, k, g, RunLength(s, i, p[k].class))

\* re.search(pattern, url): the pattern matched at the first position of the
\* string where it matches.
RECURSIVE SearchFrom(_, _, _)
SearchFrom(p, url, i) ==
    IF i > Len(url) + 1 THEN NoMatch
    ELSE LET r == MatchFrom(p, url, i, 1, <<>>)
         IN  IF r.ok THEN r ELSE SearchFrom(p, url, i + 1)

re_search(p, url) == SearchFrom(p, url, 1)

\* re.match(pattern, url): the pattern anchored at the start of the string.
re_match(p, url) == MatchFrom(p, url, 1, 1, <<>>)

(***************************************************************************)
(* extract_tweet_id_from_url.  A call's outcome is a record: raised is     *)
(* "none" and value the return value, or raised names the exception and    *)
(* arg the text the exception's message carries.                           *)
(***************************************************************************)
Return(v) == [raised |-> "none", value |-> v, msg |-> "", arg |-> <<>>]
Raise(e, msg, arg) == [raised |-> e, value |-> <<>>, msg |-> msg, arg |-> arg]

extract_tweet_id_from_url(url) ==
    With(re_match(pattern, url), LAMBDA match :
        IF match.ok /\ isdigit(match.group1)
        THEN Return(match.group1)
        ELSE Raise("ValueError", "Invalid URL or does not contain a valid post ID", url))

(***************************************************************************)
(* The posting client (tweepy.Client) and the two posting functions.  api  *)
(* is what the client does with the request; a function's result is the    *)
(* calls it made to client.create_tweet and its outcome.                   *)
(***************************************************************************)
ClientOutcomes == {"ok", "TweepyException", "ValueError", "Exception"}

\* The identifier of the created post, response.data['id'].
NEW_ID == <<"9">>

create_tweet(api) ==
    IF api = "ok" THEN Return(NEW_ID) ELSE Raise(api, "client error", <<>>)

TextCall(message) ==
    [text |-> message, quoted |-> FALSE, quote_tweet_id |-> <<>>]

QuoteCall(message, quote_tweet_id) ==
    [text |-> message, quoted |-> TRUE, quote_tweet_id |-> quote_tweet_id]

post_message(api, message) ==
    [calls |-> <<TextCall(message)>>, out |-> create_tweet(api)]

\* The reference resolved to an identifier: lines 86-89.
resolve_always_literal(quote_tweet_id_or_url) == Return(quote_tweet_id_or_url)

resolve(quote_tweet_id_or_url) ==
    IF startswith(quote_tweet_id_or_url, HTTP)
    THEN extract_tweet_id_from_url(quote_tweet_id_or_url)
    ELSE Return(quote_tweet_id_or_url)

post_quote(api, message, quote_tweet_id_or_url) ==
    With(resolve(quote_tweet_id_or_url), LAMBDA r :
        IF r.raised # "none" THEN [calls |-> <<>>, out |-> r]
        ELSE IF ~isdigit(r.value)
        THEN [calls |-> <<>>,
              out |-> Raise("ValueError",
                            "quote_tweet_id must be a string representing a valid numeric ID.",
                            <<>>)]
        ELSE [calls |-> <<QuoteCall(message, r.value)>>, out |-> create_tweet(api)])

(***************************************************************************)
(* The Streamlit session.  st.session_state is a dict: a function from the *)
(* keys present to their values.  A user event reruns the script (main)    *)
(* from the top; a button returns True only in the run its click caused,   *)
(* and only if the script reaches it.                                      *)
(***************************************************************************)

\* st.secrets["APP_PASSWORD"]
APP_PASSWORD == <<"p", "w">>

EmptyState == [k \in {} |-> FALSE]

Get(ss, key, default) == IF key \in DOMAIN ss THEN ss[key] ELSE default

Set(ss, key, v) == [k \in DOMAIN ss \cup {key} |-> IF k = key THEN v ELSE ss[k]]

Del_nothing(ss, key) == ss

Del(ss, key) == [k \in DOMAIN ss \ {key} |-> ss[k]]

IsAscii(s) == \A k \in 1..Len(s) : s[k] \notin NonAscii

\* hmac.compare_digest on two str: TypeError unless both are ASCII.
compare_digest(a, b) ==
    IF ~IsAscii(a) \/ ~IsAscii(b) THEN "TypeError"
    ELSE IF a = b THEN "True" ELSE "False"

\* An event: the widget that triggered the run and the values of the inputs.
\* api is what the posting client does if it is called during the run.
NoEvent ==
    [kind |-> "none", password |-> <<>>, text |-> <<>>, quote_url |-> <<>>,
     api |-> "ok"]

PasswordEvent(pw) == [NoEvent EXCEPT !.kind = "submit_password", !.password = pw]

PostEvent(text, quote_url, api) ==
    [NoEvent EXCEPT !.kind = "post", !.text = text, !.quote_url = quote_url,
                    !.api = api]

LogoutEvent == [NoEvent EXCEPT !.kind = "logout"]

\* What a run shows: st.title, st.error, st.success, the widgets, and the
\* exception box Streamlit shows for an exception the script does not catch.
Element(widget, text, detail, arg) ==
    [widget |-> widget, text |-> text, detail |-> detail, arg |-> arg]

IncorrectPassword == Element("error", "Incorrect password", "", <<>>)

LoginForm ==
    << Element("title", "Reserved access", "", <<>>),
       Element("form", "password_form", "", <<>>) >>

\* The form callback.
password_entered(ss) ==
    With(compare_digest(ss["password_input"], APP_PASSWORD), LAMBDA c :
        IF c = "TypeError" THEN [ss |-> ss, raised |-> "TypeError"]
        ELSE [ss |-> Del(Set(ss, "password_correct", c = "True"), "password_input"),
              raised |-> "none"])

check_password_never_stops(ss, ev) == [ss |-> ss, ret |-> "True", ui |-> <<>>]

\* The form shown and, if it was submitted, its callback run: lines 125-130.
\* The text_input of the form holds the submitted value under its key.
password_form(ss, ev) ==
    IF ev.kind = "submit_password"
    THEN password_entered(Set(ss, "password_input", ev.password))
    ELSE [ss |-> Set(ss, "password_input", Get(ss, "password_input", <<>>)),
          raised |-> "none"]

\* ret: "True" (returned True), "stop" (st.stop()) or the exception raised.
check_password(ss, ev) ==
    IF Get(ss, "password_correct", FALSE) THEN [ss |-> ss, ret |-> "True", ui |-> <<>>]
    ELSE With(password_form(ss, ev), LAMBDA r :
             IF r.raised # "none"
             THEN [ss |-> r.ss, ret |-> r.raised,
                   ui |-> LoginForm \o
                          <<Element("exception", r.raised,
                                    "comparing strings with non-ASCII characters is not supported",
                                    <<>>)>>]
             ELSE IF ~Get(r.ss, "password_correct", FALSE)
             THEN [ss |-> r.ss, ret |-> "stop", ui |-> LoginForm \o <<IncorrectPassword>>]
             ELSE [ss |-> r.ss, ret |-> "True", ui |-> LoginForm])

MainContent ==
    << Element("title", "Post on X", "", <<>>),
       Element("text_area", "Post text", "", <<>>),
       Element("text_input", "URL of the post to quote (optional)", "", <<>>),
       Element("button", "Post on X", "", <<>>) >>

LogoutButton == <<Element("button", "Logout", "", <<>>)>>

\* The except clauses of the submit: ValueError, then Exception, which every
\* exception of the posting functions is.  "" when no clause catches.
handler_without_catch_all(raised) ==
    IF raised = "ValueError" THEN "Validation error: " ELSE ""

handler(raised) ==
    IF raised = "ValueError" THEN "Validation error: " ELSE "Error during posting: "

\* The body of `if st.button("Post on X")`: lines 187-199.  raised: the
\* exception that leaves it, "none" if none does.
post_clicked(ev) ==
    IF ev.text = <<>>
    THEN [calls |-> <<>>, raised |-> "none",
          ui |-> <<Element("error", "The text cannot be empty!", "", <<>>)>>]
    ELSE With(IF ev.quote_url # <<>>
              THEN post_quote(ev.api, ev.text, ev.quote_url)
              ELSE post_message(ev.api, ev.text),
              LAMBDA r :
                IF r.out.raised = "none"
                THEN [calls |-> r.calls, raised |-> "none",
                      ui |-> <<Element("success", "Posted successfully! ID: ", "",
                                       r.out.value)>>]
                ELSE IF handler(r.out.raised) # ""
                THEN [calls |-> r.calls, raised |-> "none",
                      ui |-> <<Element("error", handler(r.out.raised), r.out.msg,
                                       r.out.arg)>>]
                ELSE [calls |-> r.calls, raised |-> r.out.raised,
                      ui |-> <<Element("exception", r.out.raised, r.out.msg,
                                       r.out.arg)>>])

NotClicked == [calls |-> <<>>, raised |-> "none", ui |-> <<>>]

\* The main content, once check_password() returned True with the state ss:
\* lines 162-205.  An exception that leaves the submit ends the run there.
protected(ss0, ss, ui, ev) ==
    With(IF ev.kind = "post" THEN post_clicked(ev) ELSE NotClicked, LAMBDA post :
        IF post.raised # "none"
        THEN [before |-> ss0, after |-> ss, ui |-> ui \o MainContent \o post.ui,
              creds |-> TRUE, authenticated |-> Get(ss, "password_correct", FALSE),
              calls |-> post.calls, ended |-> "exception"]
        ELSE [before |-> ss0,
              after |-> IF ev.kind = "logout" THEN Del(ss, "password_correct") ELSE ss,
              ui |-> ui \o MainContent \o post.ui \o LogoutButton,
              creds |-> TRUE,
              authenticated |-> Get(ss, "password_correct", FALSE),
              calls |-> post.calls,
              ended |-> IF ev.kind = "logout" THEN "rerun" ELSE "end"])

\* One run of the script.  before/after: st.session_state at its start and
\* end; creds: load_credentials() ran and the client was constructed;
\* authenticated: password_correct when the main content ran (FALSE if it did
\* not run); calls: the requests made to the client; ended: "end", "stop"
\* (st.stop()), "rerun" (st.rerun()) or "exception".
main(ss, ev) ==
    With(check_password(ss, ev), LAMBDA cp :
        IF cp.ret # "True"
        THEN [before |-> ss, after |-> cp.ss, ui |-> cp.ui, creds |-> FALSE,
              authenticated |-> FALSE, calls |-> <<>>,
              ended |-> IF cp.ret = "stop" THEN "stop" ELSE "exception"]
        ELSE protected(ss, cp.ss, cp.ui, ev))

\* The runs one event causes: the run it triggers and, after st.rerun(), the
\* run that follows at once with no widget triggered.
Handle(ss, ev) ==
    With(main(ss, ev), LAMBDA r1 :
        IF r1.ended = "rerun" THEN <<r1, main(r1.after, NoEvent)>> ELSE <<r1>>)

(***************************************************************************)
(* Inputs.                                                                 *)
(***************************************************************************)
MaxIdLen == 2
MaxPwLen == 2
MaxRefLen == 2

SeqsUpTo(S, n) == UNION {[1..k -> S] : k \in 0..n}

Passwords == SeqsUpTo({"p", "w"}, MaxPwLen) \cup {<<EAcute>>, <<"p", EAcute>>}

Texts == {<<>>, <<"h", "i">>}

\* What follows /status/ in a URL, and the literal identifiers.
Ids == SeqsUpTo({"4", "2", "a", SuperTwo, ArabicThree}, MaxIdLen)

Schemes ==
    { HTTP \o COLON_SLASHES, HTTP \o <<"s">> \o COLON_SLASHES,
      <<"f", "t", "p">> \o COLON_SLASHES, <<"x">> \o HTTP \o COLON_SLASHES }

Hosts == {X_COM, TWITTER_COM, <<"y", ".", "c", "o", "m">>, <<"x", "x", "c", "o", "m">>}

Users == {<<"u">>, <<>>, <<"a", "/", "b">>}

Mids == {STATUS, SLASH}

Suffixes == {<<>>, <<"/", "p">>}

Urls ==
    { sc \o w \o h \o SLASH \o u \o m \o id \o sf :
        sc \in Schemes, w \in {<<>>, WWW_DOT}, h \in Hosts, u \in Users,
        m \in Mids, id \in Ids, sf \in Suffixes }

\* The quote references of the session: literals and URLs.
QuoteRefs ==
    SeqsUpTo({"4", "a", SuperTwo}, MaxRefLen) \cup
    { HTTP \o <<"s">> \o COLON_SLASHES \o X_COM \o <<"/", "u">> \o STATUS \o <<"4", "2">>,
      HTTP \o COLON_SLASHES \o WWW_DOT \o TWITTER_COM \o <<"/", "u">> \o STATUS
          \o <<"4", "a">>,
      HTTP \o <<"s">> \o COLON_SLASHES \o X_COM \o <<"/", "u">> \o STATUS \o <<ArabicThree>>,
      HTTP \o <<"s">> \o COLON_SLASHES \o X_COM \o <<"/", "u">> \o STATUS \o <<"a">>,
      HTTP \o <<"s">> \o COLON_SLASHES \o X_COM \o <<"/", "u", "/", "4">>,
      HTTP \o <<"s">> \o COLON_SLASHES \o <<"y", ".", "c", "o", "m", "/", "u">> \o STATUS
          \o <<"4">>,
      HTTP \o <<"4">> }

(***************************************************************************)
(* State.  session_state: st.session_state of the browser session;         *)
(* renders: the runs of the script the last event caused; event: that      *)
(* event; probe: a direct call of one of the functions.                    *)
(***************************************************************************)
VARIABLES session_state, renders, event, probe

vars == <<session_state, renders, event, probe>>

NoProbe ==
    [fn |-> "none", message |-> <<>>, ref |-> <<>>, api |-> "ok", done |-> FALSE,
     calls |-> <<>>, out |-> Return(<<>>)]

Init ==
    /\ session_state = EmptyState
    /\ renders = <<>>
    /\ event = NoEvent
    /\ probe = NoProbe

\* st.session_state as the last of the runs rs left it.
StateAfter(rs) == rs[Len(rs)].after

\* The page opened in a browser: a new session, with an empty session state.
Visit ==
    /\ renders' = Handle(EmptyState, NoEvent)
    /\ session_state' = StateAfter(renders')
    /\ event' = NoEvent
    /\ UNCHANGED probe

\* A rerun no button caused (an input of the page edited).
Rerun ==
    /\ renders' = Handle(session_state, NoEvent)
    /\ session_state' = StateAfter(renders')
    /\ event' = NoEvent
    /\ UNCHANGED probe

\* The password form submitted.
SubmitPassword ==
    \E pw \in Passwords :
        /\ renders' = Handle(session_state, PasswordEvent(pw))
        /\ session_state' = StateAfter(renders')
        /\ event' = PasswordEvent(pw)
        /\ UNCHANGED probe

\* The button "Post on X" clicked.
ClickPost ==
    \E text \in Texts, quote_url \in QuoteRefs, api \in ClientOutcomes :
        /\ renders' = Handle(session_state, PostEvent(text, quote_url, api))
        /\ session_state' = StateAfter(renders')
        /\ event' = PostEvent(text, quote_url, api)
        /\ UNCHANGED probe

\* The button "Logout" clicked.
ClickLogout ==
    /\ renders' = Handle(session_state, LogoutEvent)
    /\ session_state' = StateAfter(renders')
    /\ event' = LogoutEvent
    /\ UNCHANGED probe

Next == Visit \/ Rerun \/ SubmitPassword \/ ClickPost \/ ClickLogout

Spec == Init /\ [][Next]_vars

(***************************************************************************)
(* The functions called directly, on inputs drawn by the initial state.    *)
(***************************************************************************)
InitUnit ==
    /\ session_state = EmptyState
    /\ renders = <<>>
    /\ event = NoEvent
    /\ \/ \E url \in Urls \cup Ids :
            probe = [NoProbe EXCEPT !.fn = "extract_tweet_id_from_url", !.ref = url]
       \/ \E m \in Texts, r \in QuoteRefs, a \in ClientOutcomes :
            probe = [NoProbe EXCEPT !.fn = "post_quote", !.message = m, !.ref = r,
                                    !.api = a]
       \/ \E m \in Texts, a \in ClientOutcomes :
            probe = [NoProbe EXCEPT !.fn = "post_message", !.message = m, !.api = a]

CallExtract ==
    /\ probe.fn = "extract_tweet_id_from_url" /\ ~probe.done
    /\ probe' = [probe EXCEPT !.done = TRUE,
                              !.out = extract_tweet_id_from_url(probe.ref)]
    /\ UNCHANGED <<session_state, renders, event>>

CallPostQuote ==
    /\ probe.fn = "post_quote" /\ ~probe.done
    /\ LET r == post_quote(probe.api, probe.message, probe.ref)
       IN  probe' = [probe EXCEPT !.done = TRUE, !.calls = r.calls, !.out = r.out]
    /\ UNCHANGED <<session_state, renders, event>>

CallPostMessage ==
    /\ probe.fn = "post_message" /\ ~probe.done
    /\ LET r == post_message(probe.api, probe.message)
       IN  probe' = [probe EXCEPT !.done = TRUE, !.calls = r.calls, !.out = r.out]
    /\ UNCHANGED <<session_state, renders, event>>

NextUnit == CallExtract \/ CallPostQuote \/ CallPostMessage

SpecUnit == InitUnit /\ [][NextUnit]_vars

(***************************************************************************)
(* Vocabulary of the properties.                                           *)
(***************************************************************************)

\* The session is unlocked: password_correct is present and True.
Unlocked(ss) == Get(ss, "password_correct", FALSE) = TRUE

\* The st.error and exception elements among ui.
IsFailure(e) == e.widget \in {"error", "exception"}
Failures(ui) == SelectSeq(ui, IsFailure)

IsSuccess(e) == e.widget = "success"

Shows(ui, e) == \E k \in 1..Len(ui) : ui[k] = e

\* The run the last event triggered.
Run == renders[1]

\* The eight beginnings of a post URL, up to the slash after the host.
Heads ==
    { sc \o w \o h \o SLASH :
        sc \in {HTTP \o COLON_SLASHES, HTTP \o <<"s">> \o COLON_SLASHES},
        w \in {<<>>, WWW_DOT}, h \in {X_COM, TWITTER_COM} }

\* The url begins with head, n characters other than a slash, and /status/.
BeginsWith(url, head, n) ==
    /\ Len(head) + n + Len(STATUS) <= Len(url)
    /\ HasAt(url, 1, head)
    /\ \A k \in 1..n : url[Len(head) + k] # "/"
    /\ HasAt(url, Len(head) + n + 1, STATUS)

\* The ways to read url as <head><user>/status/<id>..., the id a run of one
\* or more characters of D: each with the position in url where the id ends.
Shapes(url, D) ==
    UNION { UNION { IF BeginsWith(url, head, n)
                    THEN { [id |-> SubSeq(url, Len(head) + n + Len(STATUS) + 1,
                                          Len(head) + n + Len(STATUS) + m),
                            end |-> Len(head) + n + Len(STATUS) + m] :
                           m \in { j \in 1..(Len(url) - Len(head) - n - Len(STATUS)) :
                                     \A k \in 1..j :
                                        url[Len(head) + n + Len(STATUS) + k] \in D } }
                    ELSE {} : n \in 1..Len(url) } : head \in Heads }

\* The identifiers that can be read at the beginning of url.
ShapeIds(url, D) == { sh.id : sh \in Shapes(url, D) }

\* The identifiers d for which url is exactly <head><user>/status/<d>.
FullIds(url, D) == { sh.id : sh \in { x \in Shapes(url, D) : x.end = Len(url) } }

\* A decimal string: what int() reads as a number.
IsNumericId(s) == Len(s) > 0 /\ \A k \in 1..Len(s) : s[k] \in RegexDigit

Extracted == probe.fn = "extract_tweet_id_from_url" /\ probe.done
Quoted == probe.fn = "post_quote" /\ probe.done

(***************************************************************************)
(* C1.  The posting client is invoked only while password_correct is True: *)
(* in every run of the script caused by any event, a request reaches the   *)
(* client only if the flag was True when the main content ran.             *)
(***************************************************************************)
C1_ClientOnlyWhileUnlocked ==
    \A i \in 1..Len(renders) :
        /\ renders[i].calls # <<>> => renders[i].authenticated /\ Unlocked(renders[i].after)
        /\ ~Unlocked(renders[i].before) /\ ~Unlocked(renders[i].after)
              => renders[i].calls = <<>>

\* A post made from the unlocked session.
C1_Witness ==
    /\ event.kind = "post" /\ renders # <<>>
    /\ Run.calls # <<>> /\ Run.authenticated

(***************************************************************************)
(* C2.  From the locked state, the password APP_PASSWORD unlocks the       *)
(* session; any other string leaves it locked, and the failure shown is     *)
(* the one generic message, whatever the string.                           *)
(***************************************************************************)
C2_AccessGate ==
    event.kind = "submit_password" /\ ~Unlocked(Run.before)
        => IF event.password = APP_PASSWORD
           THEN Unlocked(session_state)
           ELSE ~Unlocked(session_state) /\ Failures(Run.ui) = <<IncorrectPassword>>

(***************************************************************************)
(* C3.  Logout moves the session from unlocked to locked: after it the     *)
(* flag is not True, and from a locked session no event but the submission *)
(* of APP_PASSWORD unlocks it, loads the credentials or reaches the client. *)
(***************************************************************************)
C3_LogoutLocks ==
    [][ /\ event'.kind = "logout" /\ Unlocked(session_state)
            => /\ ~Unlocked(session_state')
               /\ \A i \in 1..Len(renders') : renders'[i].calls = <<>>
        /\ ~Unlocked(session_state)
           /\ ~(event'.kind = "submit_password" /\ event'.password = APP_PASSWORD)
            => /\ ~Unlocked(session_state')
               /\ \A i \in 1..Len(renders') :
                     ~renders'[i].creds /\ renders'[i].calls = <<>> ]_vars

\* A logout of an unlocked session, ending on the login form.
C3_Witness ==
    /\ event.kind = "logout" /\ Len(renders) = 2
    /\ Unlocked(renders[1].before) /\ ~Unlocked(session_state)
    /\ renders[2].ended = "stop"

(***************************************************************************)
(* C4, as stated.  Every input that is not exactly a post URL (wrong host, *)
(* no /status/, or something that is not a digit after the identifier)     *)
(* fails with ValueError: extraction succeeds on whole post URLs only.     *)
(***************************************************************************)
C4_Original ==
    Extracted /\ FullIds(probe.ref, RegexDigit) = {}
        => probe.out = Raise("ValueError", probe.out.msg, probe.ref)

(***************************************************************************)
(* C4, amended.  Extraction fails with ValueError carrying the input, and  *)
(* returns no identifier, exactly for the inputs no beginning of which is  *)
(* a post URL; on every other input it returns the longest run of digits   *)
(* that follows /status/, whatever comes after that run.                   *)
(***************************************************************************)
C4_FailsUnlessPrefixIsPostUrl ==
    Extracted =>
        IF ShapeIds(probe.ref, RegexDigit) = {}
        THEN probe.out = Raise("ValueError", probe.out.msg, probe.ref)
        ELSE /\ probe.out.raised = "none"
             /\ probe.out.value \in ShapeIds(probe.ref, RegexDigit)
             /\ \A d \in ShapeIds(probe.ref, RegexDigit) : Len(d) <= Len(probe.out.value)

\* A URL of the wrong host rejected, the message carrying the URL.
C4_Witness ==
    /\ Extracted
    /\ startswith(probe.ref, HTTP \o <<"s">> \o COLON_SLASHES \o <<"y", ".", "c", "o", "m">>)
    /\ probe.out.raised = "ValueError" /\ probe.out.arg = probe.ref

(***************************************************************************)
(* C5.  For a URL that is exactly http(s)://[www.](x.com|twitter.com)/     *)
(* <user>/status/<digits>, extraction returns <digits>, unchanged.         *)
(***************************************************************************)
C5_ExtractsTheDigits ==
    Extracted =>
        \A d \in FullIds(probe.ref, AsciiDigit) : probe.out = Return(d)

\* https://www.twitter.com/u/status/42 gave 42.
C5_Witness ==
    /\ Extracted
    /\ probe.ref = HTTP \o <<"s">> \o COLON_SLASHES \o WWW_DOT \o TWITTER_COM
                       \o <<"/", "u">> \o STATUS \o <<"4", "2">>
    /\ probe.out = Return(<<"4", "2">>)

(***************************************************************************)
(* C6.  post_quote on a reference that resolves makes one request, with    *)
(* the message unchanged and the identifier the reference itself when it   *)
(* is a digit string, the extraction from it when it starts with http.      *)
(***************************************************************************)
C6_QuoteResolution ==
    Quoted =>
        /\ ~startswith(probe.ref, HTTP) /\ isdigit(probe.ref)
              => probe.calls = <<QuoteCall(probe.message, probe.ref)>>
        /\ startswith(probe.ref, HTTP)
           /\ extract_tweet_id_from_url(probe.ref).raised = "none"
              => probe.calls =
                    <<QuoteCall(probe.message,
                                extract_tweet_id_from_url(probe.ref).value)>>

\* https://x.com/u/status/42 quoted as 42, with the message "hi".
C6_Witness ==
    /\ Quoted
    /\ probe.ref = HTTP \o <<"s">> \o COLON_SLASHES \o X_COM \o <<"/", "u">> \o STATUS
                       \o <<"4", "2">>
    /\ probe.calls = <<QuoteCall(<<"h", "i">>, <<"4", "2">>)>>

(***************************************************************************)
(* C7.  A reference that does not start with http is the identifier as it  *)
(* stands; an identifier that is not a non-empty string of digits fails    *)
(* with ValueError before any request, so that no request carries an       *)
(* identifier that is not a number.                                        *)
(***************************************************************************)
C7_OnlyNumericIdsReachClient ==
    Quoted =>
        /\ \A k \in 1..Len(probe.calls) : IsNumericId(probe.calls[k].quote_tweet_id)
        /\ ~startswith(probe.ref, HTTP) /\ ~IsNumericId(probe.ref)
              => probe.calls = <<>> /\ probe.out.raised = "ValueError"

(***************************************************************************)
(* C8.  A submit that fails (empty text, a reference rejected, an error of *)
(* the client) shows one error and nothing more: the session stays         *)
(* unlocked, the run ends normally with the whole page shown, the Logout   *)
(* button included, and no other key of the session state changes.         *)
(***************************************************************************)
C8_FailedSubmitIsIsolated ==
    ( /\ event.kind = "post" /\ Unlocked(Run.before)
      /\ \A k \in 1..Len(Run.ui) : ~IsSuccess(Run.ui[k]) )
        => /\ Len(renders) = 1
           /\ Run.ended = "end"
           /\ Run.after = Run.before /\ session_state = Run.before
           /\ Len(Failures(Run.ui)) = 1
           /\ Failures(Run.ui)[1].widget = "error"
           /\ Shows(Run.ui, LogoutButton[1])

\* The client failed, and the session is still unlocked.
C8_Witness ==
    /\ event.kind = "post" /\ renders # <<>> /\ Unlocked(Run.before)
    /\ event.api = "TweepyException" /\ Run.calls # <<>>
    /\ Unlocked(session_state)
    /\ Failures(Run.ui) # <<>>

(***************************************************************************)
(* C9.  A submit makes one request when the text is not empty and the      *)
(* reference is empty or resolves to a number, and none otherwise; never   *)
(* more than one, never one with an empty text.                            *)
(***************************************************************************)
C9_OneRequestPerValidSubmit ==
    event.kind = "post" /\ Unlocked(Run.before) =>
        /\ Len(renders) = 1
        /\ \A k \in 1..Len(Run.calls) : Run.calls[k].text # <<>>
        /\ Len(Run.calls) =
              IF /\ event.text # <<>>
                 /\ \/ event.quote_url = <<>>
                    \/ ~startswith(event.quote_url, HTTP) /\ IsNumericId(event.quote_url)
                    \/ startswith(event.quote_url, HTTP)
                       /\ ShapeIds(event.quote_url, RegexDigit) # {}
              THEN 1 ELSE 0

(***************************************************************************)
(* C10.  A run that starts and ends with the session locked shows the      *)
(* message "Incorrect password" and stops before the credentials are        *)
(* loaded, whether a password was submitted in it or not.                  *)
(***************************************************************************)
C10_LockedRunShowsIncorrectPassword ==
    \A i \in 1..Len(renders) :
        ~Unlocked(renders[i].before) /\ ~Unlocked(renders[i].after)
            => /\ Shows(renders[i].ui, IncorrectPassword)
               /\ renders[i].ended = "stop"
               /\ ~renders[i].creds /\ renders[i].calls = <<>>

====
